---- MODULE Spec2Model ----
(***************************************************************************)
(* Pagination templates for FastAPI (cursor_pagination.py and              *)
(* offset_pagination.py): the cursor codec, the cursor pager, the offset   *)
(* pager and the offset metadata helper, as state machines over an         *)
(* unchanged ordered collection.                                           *)
(*                                                                         *)
(* Text (a Python str) is a sequence of code points, a bytes object is a   *)
(* sequence of numbers in 0..255.  An Optional[str] is a record            *)
(* [set, val]: None is [set |-> FALSE, val |-> <<>>].                      *)
(***************************************************************************)
EXTENDS Integers, Sequences, FiniteSets, TLC

VARIABLES db, dialect, op, req, res, loc, tcur, tlimit, tpages, tdone,
          frames, returned

vars == <<db, dialect, op, req, res, loc, tcur, tlimit, tpages, tdone,
          frames, returned>>

(***************************************************************************)
(* db       the rows of the queried table, unchanged in a behaviour        *)
(* dialect  what the engine does with a negative LIMIT                     *)
(* op, req, res, loc   a single call: its name, arguments, return value    *)
(*          and local variables                                            *)
(* tcur, tlimit, tpages, tdone   a client paging forward: the cursor it    *)
(*          holds, its limit, the pages received, whether it has ended     *)
(* frames, returned   calls in flight and the log of completed calls       *)
(*                                                                         *)
(* Bounds of the model, then maxPageSize, the deployment constant the      *)
(* template substitutes.                                                   *)
(***************************************************************************)
NumKeys == 6
NegLimits == 3
OverLimit == 2
MaxPage == 4
MaxTotal == 9
MaxLog == 3
MaxCodecInt == 110
MaxTextLen == 3
MaxCursorLen == 4
MaxPageSize == 3

Min(a, b) == IF a < b THEN a ELSE b
Max(a, b) == IF a > b THEN a ELSE b

None == [set |-> FALSE, val |-> <<>>]
Some(s) == [set |-> TRUE, val |-> s]

(***************************************************************************)
(* Python values handed to encode_cursor (value: any): an int or a str.    *)
(***************************************************************************)
IntVal(n) == [kind |-> "int", int |-> n, text |-> <<>>]
StrVal(s) == [kind |-> "str", int |-> 0, text |-> s]

RECURSIVE Digits(_)
Digits(n) == IF n < 10 THEN <<48 + n>> ELSE Digits(n \div 10) \o <<48 + (n % 10)>>

(* str(value): the decimal text of an int, a str unchanged. *)
PyStr(value) ==
    IF value.kind = "int"
    THEN IF value.int < 0 THEN <<45>> \o Digits(0 - value.int) ELSE Digits(value.int)
    ELSE value.text

(* str.encode(): UTF-8 of one code point (surrogates are not modelled). *)
Utf8Char(c) ==
    IF c < 128 THEN <<c>>
    ELSE IF c < 2048 THEN <<192 + (c \div 64), 128 + (c % 64)>>
    ELSE IF c < 65536
         THEN <<224 + (c \div 4096), 128 + ((c \div 64) % 64), 128 + (c % 64)>>
         ELSE <<240 + (c \div 262144), 128 + ((c \div 4096) % 64),
                128 + ((c \div 64) % 64), 128 + (c % 64)>>

RECURSIVE Utf8Encode(_)
Utf8Encode(text) ==
    IF text = <<>> THEN <<>> ELSE Utf8Char(Head(text)) \o Utf8Encode(Tail(text))

IsCont(b) == b >= 128 /\ b <= 191

(* bytes.decode(): strict UTF-8; ok = FALSE stands for UnicodeDecodeError. *)
RECURSIVE Utf8Decode(_)
Utf8Decode(bytes) ==
    IF bytes = <<>> THEN [ok |-> TRUE, text |-> <<>>]
    ELSE LET b0 == bytes[1]
             n  == IF b0 < 128 THEN 1
                   ELSE IF b0 >= 194 /\ b0 <= 223 THEN 2
                   ELSE IF b0 >= 224 /\ b0 <= 239 THEN 3
                   ELSE IF b0 >= 240 /\ b0 <= 244 THEN 4
                   ELSE 0
             lo2 == IF b0 = 224 THEN 160 ELSE IF b0 = 240 THEN 144 ELSE 128
             hi2 == IF b0 = 237 THEN 159 ELSE IF b0 = 244 THEN 143 ELSE 191
             wellFormed ==
                 /\ n > 0
                 /\ Len(bytes) >= n
                 /\ n >= 2 => (bytes[2] >= lo2 /\ bytes[2] <= hi2)
                 /\ \A i \in 3..n : IsCont(bytes[i])
             cp == IF n = 1 THEN b0
                   ELSE IF n = 2 THEN (b0 - 192) * 64 + (bytes[2] - 128)
                   ELSE IF n = 3
                        THEN (b0 - 224) * 4096 + (bytes[2] - 128) * 64 + (bytes[3] - 128)
                        ELSE (b0 - 240) * 262144 + (bytes[2] - 128) * 4096
                             + (bytes[3] - 128) * 64 + (bytes[4] - 128)
         IN IF ~wellFormed THEN [ok |-> FALSE, text |-> <<>>]
            ELSE LET rest == Utf8Decode(SubSeq(bytes, n + 1, Len(bytes)))
                 IN IF rest.ok THEN [ok |-> TRUE, text |-> <<cp>> \o rest.text]
                    ELSE rest

(***************************************************************************)
(* base64: the standard alphabet A-Z a-z 0-9 + / and the pad '='.          *)
(***************************************************************************)
B64Pad == 61

B64Char(i) ==
    IF i < 26 THEN 65 + i
    ELSE IF i < 52 THEN 97 + (i - 26)
    ELSE IF i < 62 THEN 48 + (i - 52)
    ELSE IF i = 62 THEN 43 ELSE 47

(* table_a2b_base64: the 6-bit value of a character, 64 when it has none. *)
B64Index(c) ==
    IF c >= 65 /\ c <= 90 THEN c - 65
    ELSE IF c >= 97 /\ c <= 122 THEN c - 97 + 26
    ELSE IF c >= 48 /\ c <= 57 THEN c - 48 + 52
    ELSE IF c = 43 THEN 62
    ELSE IF c = 47 THEN 63
    ELSE 64

(* b64encode with the padding stripped. *)
RECURSIVE b64encodeNoPad(_)
b64encodeNoPad(bytes) ==
    IF bytes = <<>> THEN <<>>
    ELSE IF Len(bytes) = 1
         THEN <<B64Char(bytes[1] \div 4), B64Char((bytes[1] % 4) * 16)>>
    ELSE IF Len(bytes) = 2
         THEN <<B64Char(bytes[1] \div 4),
                B64Char((bytes[1] % 4) * 16 + (bytes[2] \div 16)),
                B64Char((bytes[2] % 16) * 4)>>
    ELSE <<B64Char(bytes[1] \div 4),
           B64Char((bytes[1] % 4) * 16 + (bytes[2] \div 16)),
           B64Char((bytes[2] % 16) * 4 + (bytes[3] \div 64)),
           B64Char(bytes[3] % 64)>> \o b64encodeNoPad(SubSeq(bytes, 4, Len(bytes)))

RECURSIVE b64encode(_)
b64encode(bytes) ==
    IF bytes = <<>> THEN <<>>
    ELSE IF Len(bytes) = 1
         THEN <<B64Char(bytes[1] \div 4), B64Char((bytes[1] % 4) * 16), B64Pad, B64Pad>>
    ELSE IF Len(bytes) = 2
         THEN <<B64Char(bytes[1] \div 4),
                B64Char((bytes[1] % 4) * 16 + (bytes[2] \div 16)),
                B64Char((bytes[2] % 16) * 4), B64Pad>>
    ELSE <<B64Char(bytes[1] \div 4),
           B64Char((bytes[1] % 4) * 16 + (bytes[2] \div 16)),
           B64Char((bytes[2] % 16) * 4 + (bytes[3] \div 64)),
           B64Char(bytes[3] % 64)>> \o b64encode(SubSeq(bytes, 4, Len(bytes)))

(* b64decode(s) with validate=False: characters outside the alphabet are   *)
(* skipped, a pad that completes a quad ends the input, an incomplete quad *)
(* at the end is binascii.Error (ok = FALSE).                              *)
RECURSIVE B64Scan(_, _, _, _, _, _)
B64Scan(s, i, quad, left, pads, out) ==
    IF i > Len(s)
    THEN IF quad # 0 THEN [ok |-> FALSE, bytes |-> <<>>] ELSE [ok |-> TRUE, bytes |-> out]
    ELSE IF s[i] = B64Pad
         THEN IF quad >= 2 /\ quad + pads + 1 >= 4
              THEN [ok |-> TRUE, bytes |-> out]
              ELSE B64Scan(s, i + 1, quad, left, IF quad >= 2 THEN pads + 1 ELSE pads, out)
    ELSE LET v == B64Index(s[i])
         IN IF v >= 64 THEN B64Scan(s, i + 1, quad, left, pads, out)
            ELSE IF quad = 0 THEN B64Scan(s, i + 1, 1, v, 0, out)
            ELSE IF quad = 1
                 THEN B64Scan(s, i + 1, 2, v % 16, 0, Append(out, left * 4 + (v \div 16)))
            ELSE IF quad = 2
                 THEN B64Scan(s, i + 1, 3, v % 4, 0, Append(out, left * 16 + (v \div 4)))
            ELSE B64Scan(s, i + 1, 0, 0, 0, Append(out, left * 64 + v))

b64decode(s) == B64Scan(s, 1, 0, 0, 0, <<>>)

(***************************************************************************)
(* The cursor codec.                                                       *)
(***************************************************************************)
encode_cursor(value) == b64encode(Utf8Encode(PyStr(value)))

(* The try block of decode_cursor: ok = FALSE when any step raises. *)
DecodeAttempt(cursor) ==
    LET raw == b64decode(Utf8Encode(cursor))
    IN IF ~raw.ok THEN [ok |-> FALSE, text |-> <<>>] ELSE Utf8Decode(raw.bytes)

(* decode_cursor catching binascii.Error only: a payload that is not       *)
(* UTF-8 raises out of it.                                                 *)
decode_cursorUncaught(cursor) ==
    LET raw == b64decode(Utf8Encode(cursor))
    IN IF ~raw.ok THEN [raised |-> FALSE, text |-> <<>>]
       ELSE LET t == Utf8Decode(raw.bytes)
            IN IF t.ok THEN [raised |-> FALSE, text |-> t.text]
               ELSE [raised |-> TRUE, text |-> <<>>]

(* raised = TRUE would be an exception leaving decode_cursor. *)
decode_cursor(cursor) ==
    LET t == DecodeAttempt(cursor)
    IN IF t.ok THEN [raised |-> FALSE, text |-> t.text]
       ELSE [raised |-> FALSE, text |-> <<>>]

(***************************************************************************)
(* The collection and the storage engine.  A row carries its ordering key  *)
(* in the integer column id; keys are distinct.  A select is a record of   *)
(* its clauses; the engine coerces the text bound to the integer column    *)
(* to a number before comparing.                                           *)
(***************************************************************************)
Keys == 8..(7 + NumKeys)
Rows == {[id |-> k] : k \in Keys}
Orders == {"asc", "desc"}
Directions == {"forward", "backward"}
Dialects == {"unbounded", "error"}

RECURSIVE DbInt(_)
DbInt(text) ==
    IF text = <<>> THEN 0
    ELSE DbInt(SubSeq(text, 1, Len(text) - 1)) * 10 + (text[Len(text)] - 48)

RECURSIVE OrderBy(_, _)
OrderBy(rows, order) ==
    IF rows = {} THEN <<>>
    ELSE LET first == CHOOSE r \in rows :
                          \A o \in rows :
                              IF order = "asc" THEN r.id <= o.id ELSE r.id >= o.id
         IN <<first>> \o OrderBy(rows \ {first}, order)

(* select(...).order_by(...) *)
Select(order) ==
    [order |-> order, cmp |-> "none", bound |-> <<>>,
     offset |-> 0, limited |-> FALSE, limit |-> 0]

Where(query, cmp, bound) == [query EXCEPT !.cmp = cmp, !.bound = bound]
Limit(query, n) == [query EXCEPT !.limited = TRUE, !.limit = n]
Offset(query, n) == [query EXCEPT !.offset = n]

Matching(rows, query) ==
    {r \in rows : \/ query.cmp = "none"
                  \/ query.cmp = "gt" /\ r.id > DbInt(query.bound)
                  \/ query.cmp = "lt" /\ r.id < DbInt(query.bound)}

(* db.execute(query).scalars().all().  A negative LIMIT is engine-defined: *)
(* no limit at all under the "unbounded" dialect, an error under "error".  *)
Execute(rows, query, dia) ==
    LET ordered == OrderBy(Matching(rows, query), query.order)
        skipped == SubSeq(ordered, query.offset + 1, Len(ordered))
    IN IF ~query.limited THEN [raised |-> FALSE, rows |-> skipped]
       ELSE IF query.limit >= 0
            THEN [raised |-> FALSE,
                  rows |-> SubSeq(skipped, 1, Min(query.limit, Len(skipped)))]
       ELSE IF dia = "unbounded" THEN [raised |-> FALSE, rows |-> skipped]
       ELSE [raised |-> TRUE, rows |-> <<>>]

(* select(func.count()).select_from(query.subquery()), then .scalar() *)
Count(rows, query) == Cardinality(Matching(rows, query))

(* seq[:k] *)
PySliceTo(seq, k) ==
    IF k >= 0 THEN SubSeq(seq, 1, Min(k, Len(seq)))
    ELSE SubSeq(seq, 1, Max(Len(seq) + k, 0))

(* The truth value of an Optional[str]: None and "" are false. *)
Truthy(opt) == opt.set /\ opt.val # <<>>

(***************************************************************************)
(* cursor_paginate                                                         *)
(***************************************************************************)
CursorPaginationParams(cursor, limit) == [cursor |-> cursor, limit |-> limit]

EffectiveLimit(params) == Min(params.limit, MaxPageSize)

ApplyCursorFilter(query, cursor_value, direction) ==
    IF Truthy(cursor_value)
    THEN IF direction = "forward"
         THEN Where(query, "gt", cursor_value.val)
         ELSE Where(query, "lt", cursor_value.val)
    ELSE query

(* has_more tested with >= instead of >. *)
HasMoreOrEqual(items, limit) == Len(items) >= limit

HasMore(items, limit) == Len(items) > limit

Trim(items, limit) == IF HasMore(items, limit) THEN PySliceTo(items, limit) ELSE items

NextCursor(items, has_more) ==
    IF items # <<>> /\ has_more
    THEN Some(encode_cursor(IntVal(items[Len(items)].id)))
    ELSE None

(* previous_cursor taken from the last item instead of the first. *)
PreviousCursorLast(items, cursor_value) ==
    IF items # <<>> /\ Truthy(cursor_value)
    THEN Some(encode_cursor(IntVal(items[Len(items)].id)))
    ELSE None

PreviousCursor(items, cursor_value) ==
    IF items # <<>> /\ Truthy(cursor_value)
    THEN Some(encode_cursor(IntVal(items[1].id)))
    ELSE None

NoLocals ==
    [limit |-> 0, cursor_value |-> None, fetched |-> <<>>, has_more |-> FALSE]

Raised(locals) ==
    [raised |-> TRUE, items |-> <<>>, next_cursor |-> None,
     previous_cursor |-> None, locals |-> locals]

cursor_paginate(rows, query, params, direction, dia) ==
    LET limit == EffectiveLimit(params)
        decoded == IF Truthy(params.cursor) THEN decode_cursor(params.cursor.val)
                   ELSE [raised |-> FALSE, text |-> <<>>]
        cursor_value == IF Truthy(params.cursor) THEN Some(decoded.text) ELSE None
        filtered == ApplyCursorFilter(query, cursor_value, direction)
        result == Execute(rows, Limit(filtered, limit + 1), dia)
        has_more == HasMore(result.rows, limit)
        items == Trim(result.rows, limit)
        locals == [limit |-> limit, cursor_value |-> cursor_value,
                   fetched |-> result.rows, has_more |-> has_more]
    IN IF decoded.raised THEN Raised(NoLocals)
       ELSE IF result.raised
            THEN Raised([locals EXCEPT !.has_more = FALSE])
       ELSE [raised |-> FALSE, items |-> items,
             next_cursor |-> NextCursor(items, has_more),
             previous_cursor |-> PreviousCursor(items, cursor_value),
             locals |-> locals]

(* The endpoint of the docstring: the response built from the tuple. *)
CursorPaginationResponse(r) ==
    [data |-> r.items, next_cursor |-> r.next_cursor,
     previous_cursor |-> r.previous_cursor,
     has_next |-> r.next_cursor.set, has_previous |-> r.previous_cursor.set]

Returned(r) ==
    [raised |-> r.raised, items |-> r.items, next_cursor |-> r.next_cursor,
     previous_cursor |-> r.previous_cursor]

(***************************************************************************)
(* Inputs.                                                                 *)
(***************************************************************************)
TextsOver(alphabet, n) == UNION {[1..k -> alphabet] : k \in 0..n}

(* 'a', '1', e-acute and the euro sign: one, two and three UTF-8 bytes. *)
TextAlphabet == {97, 49, 233, 8364}

CodecValues ==
    {IntVal(n) : n \in (0 - MaxCodecInt)..MaxCodecInt}
        \cup {StrVal(s) : s \in TextsOver(TextAlphabet, MaxTextLen)}

(* 'M', 'Q', 'A', '/', 'w', the pad '=' and '!', which is not base64. *)
CursorAlphabet == {77, 81, 65, 47, 119, 61, 33}

CodecCursors == TextsOver(CursorAlphabet, MaxCursorLen)

(* "not-valid-base64!!" *)
NotValidBase64 ==
    <<110, 111, 116, 45, 118, 97, 108, 105, 100, 45, 98, 97, 115, 101, 54, 52, 33, 33>>

(* Cursors no encode_cursor call produced: bad padding ("MQ", "M"), a      *)
(* non-UTF-8 payload ("/w==" is the byte 0xFF), only pads ("====").        *)
BadCursors ==
    {NotValidBase64, <<77, 81>>, <<77>>, <<47, 119, 61, 61>>, <<61, 61, 61, 61>>}

(* None, the empty string, a cursor for every key and for the numbers      *)
(* next to the keys, "!MTA=" (decodes to "10"), and the bad cursors.       *)
CursorInputs ==
    {None, Some(<<>>), Some(<<33, 77, 84, 65, 61>>)}
        \cup {Some(encode_cursor(IntVal(k))) : k \in 7..(8 + NumKeys)}
        \cup {Some(c) : c \in BadCursors}

LimitInputs == (0 - NegLimits)..(MaxPageSize + OverLimit)

(***************************************************************************)
(* Single calls.  The request req is drawn when the behaviour starts; the  *)
(* call applies the function to it once: op names the call made, res is    *)
(* what it returned and loc the values of its local variables.             *)
(***************************************************************************)
NoCall == op = "none" /\ res = <<>> /\ loc = <<>>

NoTraversal == tcur = None /\ tlimit = 1 /\ tpages = <<>> /\ tdone = FALSE

NoFrames == frames = <<>> /\ returned = <<>>

CodecRequests ==
    {[call |-> "encode_cursor", value |-> v] : v \in CodecValues}
        \cup {[call |-> "round_trip", value |-> v] : v \in CodecValues}
        \cup {[call |-> "decode_cursor", cursor |-> c] : c \in CodecCursors}

InitCodec ==
    /\ db = {} /\ dialect = "error"
    /\ req \in CodecRequests
    /\ NoCall /\ NoTraversal /\ NoFrames

Encode ==
    /\ op = "none" /\ req.call = "encode_cursor"
    /\ op' = "encode_cursor"
    /\ res' = encode_cursor(req.value)
    /\ UNCHANGED <<db, dialect, req, loc, tcur, tlimit, tpages, tdone, frames, returned>>

Decode ==
    /\ op = "none" /\ req.call = "decode_cursor"
    /\ op' = "decode_cursor"
    /\ res' = decode_cursor(req.cursor)
    /\ UNCHANGED <<db, dialect, req, loc, tcur, tlimit, tpages, tdone, frames, returned>>

RoundTrip ==
    /\ op = "none" /\ req.call = "round_trip"
    /\ op' = "round_trip"
    /\ res' = decode_cursor(encode_cursor(req.value))
    /\ UNCHANGED <<db, dialect, req, loc, tcur, tlimit, tpages, tdone, frames, returned>>

NextCodec == Encode \/ Decode \/ RoundTrip

SpecCodec == InitCodec /\ [][NextCodec]_vars

PagerRequests ==
    [cursor : CursorInputs, limit : LimitInputs, order : Orders, direction : Directions]

InitPager ==
    /\ db \in SUBSET Rows /\ dialect \in Dialects
    /\ req \in PagerRequests
    /\ NoCall /\ NoTraversal /\ NoFrames

Paginate ==
    LET r == cursor_paginate(db, Select(req.order),
                             CursorPaginationParams(req.cursor, req.limit),
                             req.direction, dialect)
    IN /\ op = "none"
       /\ op' = "cursor_paginate"
       /\ res' = Returned(r)
       /\ loc' = r.locals
       /\ UNCHANGED <<db, dialect, req, tcur, tlimit, tpages, tdone, frames, returned>>

NextPager == Paginate

SpecPager == InitPager /\ [][NextPager]_vars

(***************************************************************************)
(* Forward traversal: a client starts with cursor = None and hands each    *)
(* returned next_cursor to the following call, over a query ordered        *)
(* ascending on id, until no next_cursor comes back.  tpages holds what    *)
(* the calls returned, in order.                                           *)
(***************************************************************************)
InitTraverse ==
    /\ db \in SUBSET Rows /\ dialect \in Dialects
    /\ req = <<>> /\ NoCall /\ NoFrames
    /\ tcur = None /\ tlimit \in 1..MaxPageSize /\ tpages = <<>> /\ tdone = FALSE

TraverseStep ==
    LET r == cursor_paginate(db, Select("asc"),
                             CursorPaginationParams(tcur, tlimit), "forward", dialect)
    IN /\ ~tdone
       /\ tpages' = Append(tpages, Returned(r))
       /\ tcur' = r.next_cursor
       /\ tdone' = ~CursorPaginationResponse(r).has_next
       /\ UNCHANGED <<db, dialect, op, req, res, loc, tlimit, frames, returned>>

NextTraverse == TraverseStep

SpecTraverse == InitTraverse /\ [][NextTraverse]_vars

(***************************************************************************)
(* Offset pagination.                                                      *)
(***************************************************************************)
OffsetPaginationParams(page, limit) == [page |-> page, limit |-> limit]

(* Field(ge=1) on page, Field(ge=1, le=maxPageSize) on limit. *)
ValidOffsetParams(params) ==
    params.page >= 1 /\ params.limit >= 1 /\ params.limit <= MaxPageSize

(* OffsetPaginationParams.offset, with the page taken as 0-indexed. *)
offsetZeroIndexed(params) == params.page * params.limit

(* OffsetPaginationParams.offset *)
offset(params) == (params.page - 1) * params.limit

(* count_query is None, or a count the caller supplies over the same rows. *)
offset_paginate(rows, query, params, count_query, dia) ==
    LET counted == IF count_query.set THEN Count(rows, count_query.val)
                   ELSE Count(rows, query)
        total_count == IF counted = 0 THEN 0 ELSE counted
        result == Execute(rows, Limit(Offset(query, offset(params)), params.limit), dia)
    IN [items |-> result.rows, total_count |-> total_count]

(* ceil(a / b) with floor division in its place. *)
FloorDiv(a, b) == a \div b

(* ceil(a / b) for b > 0 *)
Ceil(a, b) == IF a % b = 0 THEN a \div b ELSE (a \div b) + 1

create_pagination_response(items, total_items, page, limit) ==
    LET total_pages == IF limit > 0 THEN Ceil(total_items, limit) ELSE 0
    IN [data |-> items,
        pagination |-> [current_page |-> page, page_size |-> limit,
                        total_items |-> total_items, total_pages |-> total_pages,
                        has_next |-> page < total_pages,
                        has_previous |-> page > 1]]

OffsetRequests ==
    [call : {"offset_paginate"}, page : 0..MaxPage, limit : 0..(MaxPageSize + 1),
     order : Orders, count_query : {None, Some(Select("asc"))}]

MetaRequests ==
    [call : {"create_pagination_response"}, total_items : 0..MaxTotal,
     page : 0..MaxPage, limit : 0..(MaxPageSize + OverLimit)]

InitOffset ==
    /\ dialect \in Dialects
    /\ \/ req \in OffsetRequests /\ db \in SUBSET Rows
       \/ req \in MetaRequests /\ db = {}
    /\ NoCall /\ NoTraversal /\ NoFrames

(* The request is rejected by the validation of OffsetPaginationParams. *)
RejectParams ==
    /\ op = "none" /\ req.call = "offset_paginate"
    /\ ~ValidOffsetParams(OffsetPaginationParams(req.page, req.limit))
    /\ op' = "rejected"
    /\ UNCHANGED <<db, dialect, req, res, loc, tcur, tlimit, tpages, tdone, frames, returned>>

(* offset_paginate, then the response built from what it returned. *)
OffsetPaginate ==
    LET params == OffsetPaginationParams(req.page, req.limit)
        r == offset_paginate(db, Select(req.order), params, req.count_query, dialect)
    IN /\ op = "none" /\ req.call = "offset_paginate"
       /\ ValidOffsetParams(params)
       /\ op' = "offset_paginate"
       /\ res' = r
       /\ loc' = create_pagination_response(r.items, r.total_count,
                                            params.page, params.limit)
       /\ UNCHANGED <<db, dialect, req, tcur, tlimit, tpages, tdone, frames, returned>>

CreatePaginationResponse ==
    /\ op = "none" /\ req.call = "create_pagination_response"
    /\ op' = "create_pagination_response"
    /\ res' = create_pagination_response(<<>>, req.total_items, req.page, req.limit)
    /\ UNCHANGED <<db, dialect, req, loc, tcur, tlimit, tpages, tdone, frames, returned>>

NextOffset == RejectParams \/ OffsetPaginate \/ CreatePaginationResponse

SpecOffset == InitOffset /\ [][NextOffset]_vars

(***************************************************************************)
(* Concurrent calls.  Two requests may be in flight at once; a call is     *)
(* suspended at most once, at db.execute, so it runs in two steps: up to   *)
(* the query it built (its local variables are its frame), then from the   *)
(* rows fetched to the tuple it returns.  returned logs, in the order of   *)
(* completion, each request with what its call returned.                   *)
(***************************************************************************)
Calls == {1, 2}

ConcRequests ==
    [cursor : {None, Some(encode_cursor(IntVal(9)))}, limit : {2},
     order : {"asc"}, direction : Directions]

IdleFrame ==
    [pc |-> "idle", req |-> <<>>, limit |-> 0, cursor_value |-> None,
     query |-> Select("asc")]

(* The collections 8..k. *)
InitConc ==
    /\ db \in {{r \in Rows : r.id < k} : k \in 8..(8 + NumKeys)}
    /\ dialect \in Dialects
    /\ req = <<>> /\ NoCall /\ NoTraversal
    /\ frames = [c \in Calls |-> IdleFrame]
    /\ returned = <<>>

InFlight == {c \in Calls : frames[c].pc = "fetching"}

(* The local variables of every call kept in one place, shared. *)
LocalsShared(c) == frames[1]

(* The local variables of call c. *)
Locals(c) == frames[c]

(* cursor_paginate up to the query handed to db.execute. *)
Begin(c, r) ==
    LET params == CursorPaginationParams(r.cursor, r.limit)
        limit == EffectiveLimit(params)
        cursor_value == IF Truthy(params.cursor)
                        THEN Some(decode_cursor(params.cursor.val).text) ELSE None
        query == Limit(ApplyCursorFilter(Select(r.order), cursor_value, r.direction),
                       limit + 1)
    IN /\ frames[c].pc = "idle"
       /\ Len(returned) + Cardinality(InFlight) < MaxLog
       /\ frames' = [frames EXCEPT ![c] =
                         [pc |-> "fetching", req |-> r, limit |-> limit,
                          cursor_value |-> cursor_value, query |-> query]]
       /\ UNCHANGED <<db, dialect, op, req, res, loc, tcur, tlimit, tpages, tdone,
                      returned>>

(* cursor_paginate from the rows fetched to the tuple returned. *)
Complete(c) ==
    LET l == Locals(c)
        result == Execute(db, l.query, dialect)
        has_more == HasMore(result.rows, l.limit)
        items == Trim(result.rows, l.limit)
        r == IF result.raised THEN Returned(Raised(NoLocals))
             ELSE [raised |-> FALSE, items |-> items,
                   next_cursor |-> NextCursor(items, has_more),
                   previous_cursor |-> PreviousCursor(items, l.cursor_value)]
    IN /\ frames[c].pc = "fetching"
       /\ returned' = Append(returned, [req |-> frames[c].req, res |-> r])
       /\ frames' = [frames EXCEPT ![c] = IdleFrame]
       /\ UNCHANGED <<db, dialect, op, req, res, loc, tcur, tlimit, tpages, tdone>>

NextConc ==
    \/ \E c \in Calls, r \in ConcRequests : Begin(c, r)
    \/ \E c \in Calls : Complete(c)

SpecConc == InitConc /\ [][NextConc]_vars

(***************************************************************************)
(* The cursor codec: properties under SpecCodec.                           *)
(***************************************************************************)

(* C3, as stated: decode_cursor(encode_cursor(x)) is x itself, the same    *)
(* value of the same kind, for integer keys as well as string keys.        *)
C3_RoundTripSameValue ==
    op = "round_trip" => ~res.raised /\ StrVal(res.text) = req.value

(* C3, amended: decode_cursor(encode_cursor(x)) is the str str(x); it is   *)
(* x itself exactly when x is a str.                                       *)
C3_RoundTripText ==
    op = "round_trip" =>
        /\ ~res.raised
        /\ res.text = PyStr(req.value)
        /\ (StrVal(res.text) = req.value) <=> (req.value.kind = "str")

(* The integer key 10 went through the codec and came back as "10". *)
C3_Witness ==
    op = "round_trip" /\ req.value = IntVal(10) /\ res.text = <<49, 48>>

(***************************************************************************)
(* The cursor pager: properties under SpecPager.                           *)
(***************************************************************************)
Called == op = "cursor_paginate"

(* A cursor string that does not decode to a non-empty text. *)
Undecodable(cursor) ==
    cursor.set /\ (~DecodeAttempt(cursor.val).ok \/ DecodeAttempt(cursor.val).text = <<>>)

WithoutCursor ==
    Returned(cursor_paginate(db, Select(req.order),
                             CursorPaginationParams(None, req.limit),
                             req.direction, dialect))

(* C4: decode_cursor gives the empty string, never an exception, for an    *)
(* undecodable cursor, and cursor_paginate with such a cursor returns what *)
(* the same call with cursor = None returns, with no previous_cursor.      *)
C4_FailOpen ==
    Called /\ Undecodable(req.cursor) =>
        /\ decode_cursor(req.cursor.val) = [raised |-> FALSE, text |-> <<>>]
        /\ ~Truthy(loc.cursor_value)
        /\ res = WithoutCursor
        /\ ~res.previous_cursor.set

(* A cursor with a non-UTF-8 payload got the first page of a collection. *)
C4_Witness ==
    /\ Called /\ req.cursor = Some(<<47, 119, 61, 61>>)
    /\ ~res.raised /\ res.items # <<>> /\ res.items[1].id = 8
    /\ ~res.previous_cursor.set

(* C5, as stated: for every requested limit, cursor and direction at most  *)
(* MaxPageSize items are returned, and at most min(limit, MaxPageSize)     *)
(* when limit >= 1.                                                        *)
C5_AtMostMaxPageSize ==
    Called /\ ~res.raised =>
        /\ Len(res.items) <= MaxPageSize
        /\ req.limit >= 1 => Len(res.items) <= Min(req.limit, MaxPageSize)

(* C8, as stated: the limit used for the over-fetch, the has_more test and *)
(* the trim lies in 1..MaxPageSize for every integer limit.                *)
C8_LimitClamped == Called => loc.limit \in 1..MaxPageSize

C10_HasPreviousAccurate ==
    Called /\ ~res.raised /\ req.direction = "forward" /\ Truthy(loc.cursor_value) =>
        (CursorPaginationResponse(res).has_previous =>
            \E r \in db : r.id < res.items[1].id)

(***************************************************************************)
(* Forward traversal: properties under SpecTraverse.                       *)
(***************************************************************************)
Sorted == OrderBy(db, "asc")

(* The least m with m * size >= count: ceil(count / size). *)
PagesOf(count, size) == CHOOSE m \in 0..count : m * size >= count /\ (m - 1) * size < count

(* The k-th consecutive block of tlimit keys of the collection. *)
Block(k) ==
    LET first == (k - 1) * tlimit
        count == Max(0, Min(k * tlimit, Len(Sorted)) - first)
    IN [i \in 1..count |-> Sorted[first + i]]

RECURSIVE Concat(_)
Concat(pages) ==
    IF pages = <<>> THEN <<>> ELSE Head(pages).items \o Concat(Tail(pages))

(* The calls made so far returned the consecutive blocks, each but the     *)
(* last with a next_cursor encoding its last key. *)
BlocksInOrder ==
    \A k \in 1..Len(tpages) :
        /\ ~tpages[k].raised
        /\ tpages[k].items = Block(k)
        /\ k < Len(tpages) =>
               /\ tpages[k].next_cursor.set
               /\ DecodeAttempt(tpages[k].next_cursor.val) =
                      [ok |-> TRUE, text |-> Digits(Block(k)[Len(Block(k))].id)]

(* C2, as stated: the k-th call returns the k-th block of limit keys,      *)
(* every item exactly once, every call but the last a next_cursor encoding *)
(* its last key, and the traversal ends after ceil(n / limit) calls.       *)
C2_TraversalEndsAfterCeil ==
    /\ BlocksInOrder
    /\ tdone =>
           /\ Len(tpages) = PagesOf(Len(Sorted), tlimit)
           /\ ~tpages[Len(tpages)].next_cursor.set
           /\ Concat(tpages) = Sorted

(* C2, amended: as stated for a collection that is not empty; over an      *)
(* empty collection the traversal ends after its first call, which returns *)
(* no item and no next_cursor.                                             *)
C2_ForwardTraversal ==
    /\ BlocksInOrder
    /\ Len(tpages) <= Max(1, PagesOf(Len(Sorted), tlimit))
    /\ tdone =>
           /\ Len(tpages) = Max(1, PagesOf(Len(Sorted), tlimit))
           /\ ~tpages[Len(tpages)].next_cursor.set
           /\ Concat(tpages) = Sorted
    /\ ~tdone /\ tpages # <<>> => tpages[Len(tpages)].next_cursor.set

(* Five keys by pages of two: 8-9, 10-11, then 12 alone, and the end. *)
C2_Witness ==
    /\ tdone /\ tlimit = 2 /\ Len(tpages) = 3
    /\ Concat(tpages) = <<[id |-> 8], [id |-> 9], [id |-> 10], [id |-> 11], [id |-> 12]>>
    /\ Len(tpages[3].items) = 1

(***************************************************************************)
(* Offset pagination: properties under SpecOffset.                         *)
(***************************************************************************)

(* C1: for total_items >= 0, page >= 1 and limit >= 1 the metadata has     *)
(* total_pages = ceil(total_items / limit), has_next = (page < that) and   *)
(* has_previous = (page > 1); no item gives no page and no next page.      *)
C1_Metadata ==
    /\ op = "create_pagination_response" /\ req.page >= 1 /\ req.limit >= 1 =>
           LET meta == res.pagination
               pages == PagesOf(req.total_items, req.limit)
           IN /\ meta.total_pages = pages
              /\ meta.has_next <=> req.page < pages
              /\ meta.has_previous <=> req.page > 1
              /\ req.total_items = 0 => meta.total_pages = 0 /\ ~meta.has_next
    /\ op = "offset_paginate" =>
           LET meta == loc.pagination
               pages == PagesOf(Cardinality(db), req.limit)
           IN /\ meta.total_pages = pages
              /\ meta.has_next <=> req.page < pages
              /\ meta.has_previous <=> req.page > 1

(* Nine items by pages of two: five pages, and page 4 has a next page. *)
C1_Witness ==
    /\ op = "create_pagination_response"
    /\ req.total_items = 9 /\ req.limit = 2 /\ req.page = 4
    /\ res.pagination.total_pages = 5 /\ res.pagination.has_next

(* C7: offset_paginate returns total_count = n and the items at positions  *)
(* (page-1)*limit .. min(page*limit, n)-1 in collection order: a full      *)
(* page, a short last page, and no item for a page beyond the last.        *)
C7_OffsetWindow ==
    op = "offset_paginate" =>
        LET ordered == OrderBy(db, req.order)
            n == Len(ordered)
            first == (req.page - 1) * req.limit
            count == Max(0, Min(req.page * req.limit, n) - first)
        IN /\ res.total_count = n
           /\ loc.pagination.total_items = n
           /\ res.items = [i \in 1..count |-> ordered[first + i]]
           /\ req.page * req.limit <= n => Len(res.items) = req.limit
           /\ first >= n => res.items = <<>>

(* Five items by pages of two: page 3 is the last item alone. *)
C7_Witness ==
    /\ op = "offset_paginate" /\ req.page = 3 /\ req.limit = 2 /\ req.order = "asc"
    /\ res.total_count = 5 /\ Len(res.items) = 1
    /\ res.items[1].id = OrderBy(db, "asc")[5].id

(***************************************************************************)
(* Concurrent calls: properties under SpecConc.                            *)
(***************************************************************************)

(* C9: calls with the same cursor, limit and direction over the unchanged  *)
(* collection, one after the other or interleaved with other calls, all    *)
(* return the same items and the same cursors, which are those of the call *)
(* run alone.                                                              *)
C9_Idempotent ==
    \A i \in 1..Len(returned) :
        /\ \A j \in 1..Len(returned) :
               returned[i].req = returned[j].req => returned[i].res = returned[j].res
        /\ returned[i].res =
               Returned(cursor_paginate(db, Select(returned[i].req.order),
                                        CursorPaginationParams(returned[i].req.cursor,
                                                               returned[i].req.limit),
                                        returned[i].req.direction, dialect))

(* The same request returned twice, a different one in between, with a     *)
(* page of two items and a next_cursor each time.                          *)
C9_Witness ==
    /\ Len(returned) = 3
    /\ returned[1].req = returned[3].req /\ returned[1].req # returned[2].req
    /\ returned[1].res = returned[3].res /\ returned[1].res # returned[2].res
    /\ Len(returned[1].res.items) = 2 /\ returned[1].res.next_cursor.set

====
